---------------------------- MODULE Spec2Model ----------------------------
(***************************************************************************)
(* Model of the key-value storage engine (src/src/kv-store/kv-store.ts,    *)
(* class KVStore) and of the username-prefixing tool front-end             *)
(* (src/src/kv-store/index.ts, getUserKey and the kv_* tools).             *)
(*                                                                         *)
(* Conventions                                                             *)
(*  - A JavaScript string is a sequence of one-character strings.          *)
(*  - A JavaScript value is a record [t, n, s]: t is the run-time kind     *)
(*    ("number", "NaN", "string", "boolean", "null", "undefined"), n the   *)
(*    number (or 0/1 for a boolean) and s the string; "NaN" is the number  *)
(*    NaN, whose typeof is 'number'.                                       *)
(*  - An optional number (expiresAt?: number) is a record [def, ms].       *)
(*  - A seconds argument is a record [def, num, den] standing for the      *)
(*    JavaScript number num/den (den divides 1000).                        *)
(*  - The store (a Map) is a function whose DOMAIN is the set of keys      *)
(*    present; enumeration order is not modelled.                          *)
(*  - An async method is split at the awaits at which other callers can    *)
(*    run: after the get inside incr/decr/append, and while a disk write   *)
(*    started by saveToDisk is outstanding.                                *)
(***************************************************************************)
EXTENDS Integers, Sequences, FiniteSets, TLC

-----------------------------------------------------------------------------
(* Bounds of the model *)

\* config.maxKeySize as configured for the model (default 1024)
maxKeySize == 5

\* config.maxValueSize as configured for the model (default 1 MiB)
maxValueSize == 4

\* number of clock advances in one behaviour
MaxTicks == 2

\* cap on hitCount + missCount in one behaviour
MaxCount == 2

\* one clock advance, in milliseconds
TickMs == 500

-----------------------------------------------------------------------------
(* Program constants *)

\* milliseconds per second: ttlSeconds * 1000, remainingMs / 1000
MsPerSec == 1000

\* ttl() result for a key that does not exist
TtlNoKey == -2

\* ttl() result for a key without expiration
TtlNoExpiry == -1

\* value of Date.now() when the model starts
StartTime == 1000

\* HTTP status of res.json(...) without res.status(...)
HttpOk == 200

\* HTTP status set in the catch of a route handler: res.status(500)
HttpServerError == 500

-----------------------------------------------------------------------------
(* JavaScript values *)

Num(n) == [t |-> "number", n |-> n, s |-> <<>>]
Str(s) == [t |-> "string", n |-> 0, s |-> s]
Bool(b) == [t |-> "boolean", n |-> IF b THEN 1 ELSE 0, s |-> <<>>]
Null == [t |-> "null", n |-> 0, s |-> <<>>]
NaN == [t |-> "NaN", n |-> 0, s |-> <<>>]
Undefined == [t |-> "undefined", n |-> 0, s |-> <<>>]

\* what a caller gets in place of a result when the method throws (the promise
\* of the async method is rejected)
Fault == [t |-> "fault", n |-> 0, s |-> <<>>]

\* expiresAt?: number
NoNumber == [def |-> FALSE, ms |-> 0]
SomeNumber(n) == [def |-> TRUE, ms |-> n]

\* JavaScript truthiness of an optional number: undefined and 0 are falsy
TruthyNumber(o) == o.def /\ o.ms # 0

\* ttlSeconds?: number, the number num/den
NoSeconds == [def |-> FALSE, num |-> 0, den |-> 1]
Seconds(num, den) == [def |-> TRUE, num |-> num, den |-> den]
TruthySeconds(q) == q.def /\ q.num # 0

\* seconds * 1000 (exact: den divides 1000)
SecondsToMs(q) == (q.num * MsPerSec) \div q.den

\* mutant of CeilSeconds: Math.floor(x / 1000)
CeilSeconds_Floor(x) == x \div MsPerSec

\* Math.ceil(x / 1000)
CeilSeconds(x) == -((-x) \div MsPerSec)

Max(a, b) == IF a >= b THEN a ELSE b

\* number of characters of the decimal rendering of an integer
RECURSIVE DecimalLen(_)
DecimalLen(n) ==
    IF n < 0 THEN 1 + DecimalLen(-n)
    ELSE IF n < 10 THEN 1 ELSE 1 + DecimalLen(n \div 10)

\* JSON.stringify(value).length; JSON.stringify(NaN) is "null";
\* JSON.stringify(undefined) is undefined, whose .length throws: -1 stands
\* for that throw
JsonLength(v) ==
    CASE v.t = "number" -> DecimalLen(v.n)
      [] v.t = "NaN" -> 4
      [] v.t = "string" -> Len(v.s) + 2
      [] v.t = "boolean" -> IF v.n = 1 THEN 4 ELSE 5
      [] v.t = "null" -> 4
      [] OTHER -> -1

\* typeof value, as used for the entry's type tag
TypeTag(v) ==
    IF v.t = "null" THEN "object"
    ELSE IF v.t \in {"number", "NaN"} THEN "number"
    ELSE IF v.t = "boolean" THEN "boolean"
    ELSE "string"

-----------------------------------------------------------------------------
(* Maps *)

EmptyMap == <<>>

Put(m, k, e) == [x \in (DOMAIN m) \cup {k} |-> IF x = k THEN e ELSE m[x]]

Remove(m, k) == [x \in (DOMAIN m) \ {k} |-> m[x]]

-----------------------------------------------------------------------------
(* Inputs drawn by the actions *)

\* engine keys: a valid key, the empty key, a key one character too long
LongKey == [i \in 1..(maxKeySize + 1) |-> "k"]
EngineKeys == {<<"a">>, <<>>, LongKey}

\* a string whose serialization is one character longer than maxValueSize
LongString == [i \in 1..(maxValueSize - 1) |-> "z"]

\* values passed to set: a number, a string, undefined
Values == {Num(5), Str(<<"x">>), Undefined}

\* ttlSeconds passed to set: absent, half a second, one second
TtlArgs == {NoSeconds, Seconds(1, 2), Seconds(1, 1)}

\* strings passed to append
AppendArgs == {<<"a">>, <<"b">>, LongString}

\* logically concurrent callers
Callers == {"c1", "c2"}

\* a single caller issuing its calls back to back
Sequential == {"c1"}

\* storage modes (config.storageMode)
Modes == {"memory", "file", "hybrid"}

-----------------------------------------------------------------------------
(* State *)

VARIABLES
    mode,       \* config.storageMode
    user,       \* per caller: the username its tool calls carry (<<>>: none)
    phase,      \* progress of init(): "mkdir", "loading", "ready" (the timers
                \* run); "closed" once close() has cleared the timers
    data,       \* this.data: the store, key -> entry
    disk,       \* the data file kvstore.json: [state, map]
    writes,     \* fs.writeFile calls in flight: [owner, snap]
    now,        \* Date.now()
    hitCount,   \* this.hitCount
    missCount,  \* this.missCount
    calls,      \* per caller: the engine call it is suspended in
    last,       \* the call that returned in the step into this state
    hist,       \* history: per key, the last mutating call applied to it
    race,       \* history: the current group of overlapping incr calls
    backupFile, \* the file written by the last backup(): [state, timestamp, data]
    prev,       \* history: how this engine came to be, and the store it is
                \* to be compared with
    backupTick  \* the callback of the backup timer: "idle", "mkdir" and
                \* "write" (inside backup()), "rejected" (its promise was
                \* rejected and nothing handles it)

vars == <<mode, user, phase, data, disk, writes, now, hitCount, missCount,
          calls, last, hist, race, backupFile, prev, backupTick>>

\* what only close(), backup(), the backup timer and the start of a new
\* engine assign
fixed == <<mode, user, backupFile, prev, backupTick>>

\* history of a key that no call has written
NeverWritten ==
    [kind |-> "never", ok |-> FALSE, v |-> Undefined, ttl |-> NoSeconds,
     at |-> 0, miss |-> FALSE, arg |-> <<>>, by |-> "none", user |-> <<>>]

H(k) == IF k \in DOMAIN hist THEN hist[k] ELSE NeverWritten

\* the record of a returned call: the method, its key and argument, what it
\* returned (ret, or keys for a key list), and history for incr, decr and
\* append: pre, the history of the key when the call started, and clean,
\* whether no other call wrote the key between the call's get and its set;
\* status is the HTTP status when the call is answered by the HTTP front-end,
\* and 0 otherwise
Result(op, key, arg, ret, ks, pre, clean) ==
    [op |-> op, caller |-> "none", user |-> <<>>, key |-> key, arg |-> arg,
     ret |-> ret, keys |-> ks, pre |-> pre, clean |-> clean, status |-> 0]

\* no call returned in the last step
NoCall == Result("none", <<>>, <<>>, Undefined, {}, NeverWritten, FALSE)

\* a caller that is not inside an engine call
Idle == [pc |-> "idle", op |-> "none", key |-> <<>>, cur |-> Undefined,
         arg |-> <<>>, pre |-> NeverWritten, res |-> NoCall]

NoRace == [key |-> <<>>, base |-> 0, started |-> {}, done |-> {}, ok |-> FALSE]

\* the data file: absent (ENOENT), or holding the JSON of a store
NoFile == [state |-> "absent", map |-> EmptyMap]
FileOf(m) == [state |-> "ok", map |-> m]

\* no backup file has been written
NoBackup == [state |-> "absent", timestamp |-> 0, data |-> EmptyMap]

\* history: the first engine of a behaviour, which has not been closed
FirstEngine == [how |-> "first", store |-> EmptyMap]

-----------------------------------------------------------------------------
(* Entry Codec and Expiration Policy *)

\* mutant of validateKey: the empty key is accepted
validateKey_AllowsEmpty(key) == Len(key) <= maxKeySize

\* validateKey: TRUE when it does not throw (keys here are strings)
validateKey(key) == Len(key) # 0 /\ Len(key) <= maxKeySize

\* validateValue: TRUE when it does not throw
validateValue(value) ==
    JsonLength(value) >= 0 /\ JsonLength(value) <= maxValueSize

\* mutant of NewEntry: the expiry is computed even when no TTL is given
NewEntry_AlwaysExpires(value, ttlSeconds) ==
    [value |-> value,
     type |-> TypeTag(value),
     createdAt |-> now,
     expiresAt |-> SomeNumber(now + SecondsToMs(ttlSeconds))]

\* the entry built by set()
NewEntry(value, ttlSeconds) ==
    [value |-> value,
     type |-> TypeTag(value),
     createdAt |-> now,
     expiresAt |-> IF TruthySeconds(ttlSeconds)
                   THEN SomeNumber(now + SecondsToMs(ttlSeconds))
                   ELSE NoNumber]

\* entry.expiresAt && Date.now() > entry.expiresAt
IsExpired(entry) == TruthyNumber(entry.expiresAt) /\ now > entry.expiresAt.ms

\* mutant of get: the expiry is not looked at
get_NoExpiryCheck(key) ==
    IF key \notin DOMAIN data
    THEN [ret |-> Undefined, data |-> data, hit |-> 0, miss |-> 1]
    ELSE [ret |-> data[key].value, data |-> data, hit |-> 1, miss |-> 0]

\* mutant of get: a key that is not in the map is not counted as a miss
get_MissNotCounted(key) ==
    IF key \notin DOMAIN data
    THEN [ret |-> Undefined, data |-> data, hit |-> 0, miss |-> 0]
    ELSE IF IsExpired(data[key])
    THEN [ret |-> Undefined, data |-> Remove(data, key), hit |-> 0, miss |-> 1]
    ELSE [ret |-> data[key].value, data |-> data, hit |-> 1, miss |-> 0]

\* get(): the value returned, the store afterwards, and the counter increments
get(key) ==
    IF key \notin DOMAIN data
    THEN [ret |-> Undefined, data |-> data, hit |-> 0, miss |-> 1]
    ELSE IF IsExpired(data[key])
    THEN [ret |-> Undefined, data |-> Remove(data, key), hit |-> 0, miss |-> 1]
    ELSE [ret |-> data[key].value, data |-> data, hit |-> 1, miss |-> 0]

\* mutant of exists: the entry found is removed whether expired or not
exists_RemovesFound(key) ==
    IF key \notin DOMAIN data
    THEN [ret |-> FALSE, data |-> data]
    ELSE [ret |-> ~IsExpired(data[key]), data |-> Remove(data, key)]

\* exists(): the result and the store afterwards
exists(key) ==
    IF key \notin DOMAIN data
    THEN [ret |-> FALSE, data |-> data]
    ELSE IF IsExpired(data[key])
    THEN [ret |-> FALSE, data |-> Remove(data, key)]
    ELSE [ret |-> TRUE, data |-> data]

\* mutant of ttl: a missing key is reported like a key without expiration
ttl_MissingIsNoExpiry(key) ==
    IF key \notin DOMAIN data THEN TtlNoExpiry
    ELSE IF ~TruthyNumber(data[key].expiresAt) THEN TtlNoExpiry
    ELSE Max(0, CeilSeconds(data[key].expiresAt.ms - now))

\* ttl(): remaining seconds
ttl(key) ==
    IF key \notin DOMAIN data THEN TtlNoKey
    ELSE IF ~TruthyNumber(data[key].expiresAt) THEN TtlNoExpiry
    ELSE Max(0, CeilSeconds(data[key].expiresAt.ms - now))

\* mutant of incrValue: the current value is not used
incrValue_IgnoresCurrent(current) == 1

\* incr: (typeof current === 'number' ? current : 0) + 1
incrValue(current) == (IF current.t = "number" THEN current.n ELSE 0) + 1

\* mutant of decrValue: a value that is not a number counts as 1
decrValue_CoercesToOne(current) ==
    (IF current.t = "number" THEN current.n ELSE 1) - 1

\* decr: (typeof current === 'number' ? current : 0) - 1
decrValue(current) == (IF current.t = "number" THEN current.n ELSE 0) - 1

\* the sum or difference computed by incr and decr as a JavaScript value:
\* typeof NaN is 'number', and NaN + 1 and NaN - 1 are NaN
JsNumber(current, n) == IF current.t = "NaN" THEN NaN ELSE Num(n)

\* mutant of appendValue: the new string is put in front
appendValue_Prepends(current, value) ==
    value \o (IF current.t = "string" THEN current.s ELSE <<>>)

\* append: (typeof current === 'string' ? current : '') + value
appendValue(current, value) ==
    (IF current.t = "string" THEN current.s ELSE <<>>) \o value

\* a value after JSON.parse(JSON.stringify(value)): finite numbers, strings,
\* booleans and null parse back to themselves; NaN is written as null
JsonParsed(v) == IF v.t = "NaN" THEN Null ELSE v

\* JSON.stringify(Object.fromEntries(data)) read back by
\* new Map(Object.entries(JSON.parse(...))): each value goes through JSON,
\* the type tag and createdAt are kept, and an undefined expiresAt is omitted
\* and absent again after parsing
ToDisk(m) == [k \in DOMAIN m |-> [m[k] EXCEPT !.value = JsonParsed(@)]]

-----------------------------------------------------------------------------
(* How an engine call returns *)

\* the call returns result r to its caller in this step
Return(c, r) ==
    /\ last' = [r EXCEPT !.caller = c, !.user = user[c]]
    /\ calls' = [calls EXCEPT ![c] = Idle]

\* saveToDisk(): the store as it is now is serialized and handed to
\* fs.writeFile; the caller is suspended until the write completes, and then
\* returns r
saveToDisk(c, r) ==
    /\ writes' = writes \cup {[owner |-> c, snap |-> ToDisk(data')]}
    /\ calls' = [calls EXCEPT ![c] = [Idle EXCEPT !.pc = "saving", !.res = r]]
    /\ last' = NoCall

\* the tail of a mutating method: await saveToDisk() when `save`, then return
SaveAndReturn(c, r, save) ==
    IF save THEN saveToDisk(c, r) ELSE Return(c, r) /\ UNCHANGED writes

\* history: a write other than a tracked incr touched the key of the race
RaceTouched(key) ==
    IF race.key = key /\ race.started # {} THEN [race EXCEPT !.ok = FALSE]
    ELSE race

\* history: clear touches every key
RaceCleared == IF race.started # {} THEN [race EXCEPT !.ok = FALSE] ELSE race

\* the bound on the hit and miss counters leaves room for one more get
CanCount == hitCount + missCount < MaxCount

-----------------------------------------------------------------------------
(* Operation Engine *)

\* mutant of SetBody: an entry that has an expiration keeps it when it is
\* overwritten
SetBody_KeepsExpiry(c, r, key, value, ttlSeconds, miss, arg) ==
    LET written(ok) ==
            [kind |-> r.op, ok |-> ok, v |-> value, ttl |-> ttlSeconds,
             at |-> now, miss |-> miss, arg |-> arg, by |-> c,
             user |-> user[c]]
    IN IF validateKey(key) /\ validateValue(value)
       THEN /\ data' = Put(data, key,
                            IF key \in DOMAIN data /\ data[key].expiresAt.def
                            THEN [NewEntry(value, ttlSeconds) EXCEPT
                                    !.expiresAt = data[key].expiresAt]
                            ELSE NewEntry(value, ttlSeconds))
            /\ hist' = Put(hist, key, written(TRUE))
            /\ SaveAndReturn(c, r, mode = "file")
       ELSE /\ hist' = IF r.op = "set" THEN hist
                       ELSE Put(hist, key, written(FALSE))
            /\ Return(c, [r EXCEPT !.ret = IF r.op = "set" THEN Bool(FALSE)
                                           ELSE r.ret])
            /\ UNCHANGED <<data, writes>>

\* set(key, value, ttlSeconds) as called by method r.op, which then returns r;
\* miss and arg are history: whether the method's get found nothing, and the
\* string passed to append
SetBody(c, r, key, value, ttlSeconds, miss, arg) ==
    LET written(ok) ==
            [kind |-> r.op, ok |-> ok, v |-> value, ttl |-> ttlSeconds,
             at |-> now, miss |-> miss, arg |-> arg, by |-> c,
             user |-> user[c]]
    IN IF validateKey(key) /\ validateValue(value)
       THEN /\ data' = Put(data, key, NewEntry(value, ttlSeconds))
            /\ hist' = Put(hist, key, written(TRUE))
            /\ SaveAndReturn(c, r, mode = "file")
       ELSE /\ hist' = IF r.op = "set" THEN hist
                       ELSE Put(hist, key, written(FALSE))
            /\ Return(c, [r EXCEPT !.ret = IF r.op = "set" THEN Bool(FALSE)
                                           ELSE r.ret])
            /\ UNCHANGED <<data, writes>>

Set(c, key, value, ttlSeconds) ==
    /\ calls[c].pc = "idle"
    /\ SetBody(c, Result("set", key, <<>>, Bool(TRUE), {}, NeverWritten, TRUE),
               key, value, ttlSeconds, FALSE, <<>>)
    /\ race' = RaceTouched(key)
    /\ UNCHANGED <<fixed, phase, disk, now, hitCount, missCount>>

Get(c, key) ==
    /\ calls[c].pc = "idle"
    /\ CanCount
    /\ data' = get(key).data
    /\ hitCount' = hitCount + get(key).hit
    /\ missCount' = missCount + get(key).miss
    /\ Return(c, Result("get", key, <<>>, get(key).ret, {}, NeverWritten, TRUE))
    /\ UNCHANGED <<fixed, phase, disk, writes, now, hist, race>>

Delete(c, key) ==
    /\ calls[c].pc = "idle"
    /\ data' = Remove(data, key)
    /\ hist' = Put(hist, key, [NeverWritten EXCEPT !.kind = "removed"])
    /\ race' = RaceTouched(key)
    /\ SaveAndReturn(c, Result("delete", key, <<>>, Bool(key \in DOMAIN data),
                               {}, NeverWritten, TRUE),
                     key \in DOMAIN data /\ mode = "file")
    /\ UNCHANGED <<fixed, phase, disk, now, hitCount, missCount>>

Exists(c, key) ==
    /\ calls[c].pc = "idle"
    /\ data' = exists(key).data
    /\ Return(c, Result("exists", key, <<>>, Bool(exists(key).ret), {},
                        NeverWritten, TRUE))
    /\ UNCHANGED <<fixed, phase, disk, writes, now, hitCount, missCount, hist,
                   race>>

\* mutant of Expire: the entry is stamped anew (createdAt is overwritten)
Expire_ResetsCreatedAt(c, key, seconds) ==
    /\ calls[c].pc = "idle"
    /\ IF key \in DOMAIN data
       THEN /\ data' = [data EXCEPT ![key].expiresAt =
                            SomeNumber(now + SecondsToMs(seconds)),
                                    ![key].createdAt = now]
            /\ hist' = Put(hist, key,
                           [NeverWritten EXCEPT !.kind = "expire", !.ok = TRUE,
                                                !.v = data[key].value,
                                                !.ttl = seconds, !.at = now,
                                                !.by = c, !.user = user[c]])
            /\ SaveAndReturn(c, Result("expire", key, <<>>, Bool(TRUE), {},
                                       NeverWritten, TRUE),
                             mode = "file")
       ELSE /\ Return(c, Result("expire", key, <<>>, Bool(FALSE), {},
                                NeverWritten, TRUE))
            /\ UNCHANGED <<data, hist, writes>>
    /\ race' = RaceTouched(key)
    /\ UNCHANGED <<fixed, phase, disk, now, hitCount, missCount>>

Expire(c, key, seconds) ==
    /\ calls[c].pc = "idle"
    /\ IF key \in DOMAIN data
       THEN /\ data' = [data EXCEPT ![key].expiresAt =
                            SomeNumber(now + SecondsToMs(seconds))]
            /\ hist' = Put(hist, key,
                           [NeverWritten EXCEPT !.kind = "expire", !.ok = TRUE,
                                                !.v = data[key].value,
                                                !.ttl = seconds, !.at = now,
                                                !.by = c, !.user = user[c]])
            /\ SaveAndReturn(c, Result("expire", key, <<>>, Bool(TRUE), {},
                                       NeverWritten, TRUE),
                             mode = "file")
       ELSE /\ Return(c, Result("expire", key, <<>>, Bool(FALSE), {},
                                NeverWritten, TRUE))
            /\ UNCHANGED <<data, hist, writes>>
    /\ race' = RaceTouched(key)
    /\ UNCHANGED <<fixed, phase, disk, now, hitCount, missCount>>

Ttl(c, key) ==
    /\ calls[c].pc = "idle"
    /\ Return(c, Result("ttl", key, <<>>, Num(ttl(key)), {}, NeverWritten, TRUE))
    /\ UNCHANGED <<fixed, phase, data, disk, writes, now, hitCount, missCount,
                   hist, race>>

\* the first part of incr, decr and append: `await this.get(key)`
GetThenSuspend(c, op, key, arg) ==
    /\ calls[c].pc = "idle"
    /\ CanCount
    /\ data' = get(key).data
    /\ hitCount' = hitCount + get(key).hit
    /\ missCount' = missCount + get(key).miss
    /\ calls' = [calls EXCEPT ![c] =
                    [Idle EXCEPT !.pc = "got", !.op = op, !.key = key,
                                 !.cur = get(key).ret, !.arg = arg,
                                 !.pre = H(key)]]
    /\ last' = NoCall
    /\ UNCHANGED <<fixed, phase, disk, writes, now, hist>>

\* the second part of incr, decr and append: `await this.set(key, newValue)`
\* and the return of `returned`
SetThenReturn(c, newValue, returned) ==
    SetBody(c, Result(calls[c].op, calls[c].key, calls[c].arg, returned, {},
                      calls[c].pre, H(calls[c].key) = calls[c].pre),
            calls[c].key, newValue, NoSeconds,
            calls[c].cur.t = "undefined", calls[c].arg)

\* incr(key) up to its await of get
IncrGet(c, key) ==
    /\ GetThenSuspend(c, "incr", key, <<>>)
    /\ race' =
         IF race.started = race.done
         THEN IF get(key).ret.t = "number" /\ ~TruthyNumber(data[key].expiresAt)
              THEN [key |-> key, base |-> get(key).ret.n, started |-> {c},
                    done |-> {}, ok |-> TRUE]
              ELSE NoRace
         ELSE IF race.key # key THEN race
         ELSE IF race.done = {} THEN [race EXCEPT !.started = @ \cup {c}]
         ELSE [race EXCEPT !.ok = FALSE]

\* incr(key) from the resumption after the get to its return
IncrSet(c) ==
    /\ calls[c].pc = "got"
    /\ calls[c].op = "incr"
    /\ SetThenReturn(c, JsNumber(calls[c].cur, incrValue(calls[c].cur)),
                     JsNumber(calls[c].cur, incrValue(calls[c].cur)))
    /\ race' = IF c \in race.started /\ calls[c].key = race.key
               THEN [race EXCEPT !.done = @ \cup {c}]
               ELSE RaceTouched(calls[c].key)
    /\ UNCHANGED <<fixed, phase, disk, now, hitCount, missCount>>

\* decr(key) up to its await of get
DecrGet(c, key) ==
    /\ GetThenSuspend(c, "decr", key, <<>>)
    /\ UNCHANGED race

\* decr(key) from the resumption after the get to its return
DecrSet(c) ==
    /\ calls[c].pc = "got"
    /\ calls[c].op = "decr"
    /\ SetThenReturn(c, JsNumber(calls[c].cur, decrValue(calls[c].cur)),
                     JsNumber(calls[c].cur, decrValue(calls[c].cur)))
    /\ race' = RaceTouched(calls[c].key)
    /\ UNCHANGED <<fixed, phase, disk, now, hitCount, missCount>>

\* append(key, value) up to its await of get
AppendGet(c, key, value) ==
    /\ GetThenSuspend(c, "append", key, value)
    /\ UNCHANGED race

\* append(key, value) from the resumption after the get to its return
AppendSet(c) ==
    /\ calls[c].pc = "got"
    /\ calls[c].op = "append"
    /\ SetThenReturn(c, Str(appendValue(calls[c].cur, calls[c].arg)),
                     Num(Len(appendValue(calls[c].cur, calls[c].arg))))
    /\ race' = RaceTouched(calls[c].key)
    /\ UNCHANGED <<fixed, phase, disk, now, hitCount, missCount>>

\* mutant of Clear: the map is not emptied
Clear_KeepsData(c) ==
    /\ calls[c].pc = "idle"
    /\ data' = data
    /\ hist' = [k \in (DOMAIN hist) \cup (DOMAIN data) |->
                  [NeverWritten EXCEPT !.kind = "removed"]]
    /\ race' = RaceCleared
    /\ SaveAndReturn(c, Result("clear", <<>>, <<>>, Undefined, {},
                               NeverWritten, TRUE),
                     mode # "memory")
    /\ UNCHANGED <<fixed, phase, disk, now, hitCount, missCount>>

Clear(c) ==
    /\ calls[c].pc = "idle"
    /\ data' = EmptyMap
    /\ hist' = [k \in (DOMAIN hist) \cup (DOMAIN data) |->
                  [NeverWritten EXCEPT !.kind = "removed"]]
    /\ race' = RaceCleared
    /\ SaveAndReturn(c, Result("clear", <<>>, <<>>, Undefined, {},
                               NeverWritten, TRUE),
                     mode # "memory")
    /\ UNCHANGED <<fixed, phase, disk, now, hitCount, missCount>>

-----------------------------------------------------------------------------
(* Disk writes, timers, clock *)

\* the suspended owner of a completed write returns
WriteReturns(w) ==
    IF w.owner \in Callers
    THEN Return(w.owner, calls[w.owner].res)
    ELSE last' = NoCall /\ UNCHANGED calls

\* an fs.writeFile started by saveToDisk completes: the file now holds the
\* snapshot taken when the write was started
WriteDone(w) ==
    /\ w \in writes
    /\ writes' = writes \ {w}
    /\ disk' = FileOf(w.snap)
    /\ WriteReturns(w)
    /\ UNCHANGED <<fixed, phase, data, now, hitCount, missCount, hist, race>>

\* history: saveToDisk, awaited by the callback of timer o, caught and logged
\* a write error, and the callback's promise is fulfilled
LoggedError(o) == [NoCall EXCEPT !.op = "log-error", !.caller = o]

\* an fs.writeFile fails: saveToDisk catches and logs the error, the file is
\* left as it was, and the suspended caller returns all the same
WriteFailed(w) ==
    /\ w \in writes
    /\ writes' = writes \ {w}
    /\ IF w.owner \in Callers
       THEN Return(w.owner, calls[w.owner].res)
       ELSE last' = LoggedError(w.owner) /\ UNCHANGED calls
    /\ UNCHANGED <<fixed, phase, data, disk, now, hitCount, missCount, hist,
                   race>>

\* mutant of ExpiredKeys: the cleanup timer finds nothing to remove
ExpiredKeys_None == {}

\* the keys the cleanup timer removes at a tick
ExpiredKeys == {k \in DOMAIN data : IsExpired(data[k])}

\* one tick of the cleanup timer (setupCleanupTimer); the timer period is far
\* longer than a write, so the write of the previous tick has completed
Sweep ==
    /\ phase = "ready"
    /\ \A w \in writes : w.owner # "sweep"
    /\ data' = [k \in (DOMAIN data) \ ExpiredKeys |-> data[k]]
    /\ writes' = IF ExpiredKeys # {} /\ mode # "memory"
                 THEN writes \cup {[owner |-> "sweep", snap |-> ToDisk(data')]}
                 ELSE writes
    /\ last' = NoCall
    /\ UNCHANGED <<fixed, phase, disk, now, hitCount, missCount, calls, hist,
                   race>>

\* mutant of Sync: the tick writes an empty store
Sync_WritesEmptyStore ==
    /\ phase = "ready"
    /\ mode = "hybrid"
    /\ \A w \in writes : w.owner # "sync"
    /\ writes' = writes \cup {[owner |-> "sync", snap |-> EmptyMap]}
    /\ last' = NoCall
    /\ UNCHANGED <<fixed, phase, data, disk, now, hitCount, missCount, calls,
                   hist, race>>

\* one tick of the sync timer (setupSyncTimer, hybrid mode only)
Sync ==
    /\ phase = "ready"
    /\ mode = "hybrid"
    /\ \A w \in writes : w.owner # "sync"
    /\ writes' = writes \cup {[owner |-> "sync", snap |-> ToDisk(data)]}
    /\ last' = NoCall
    /\ UNCHANGED <<fixed, phase, data, disk, now, hitCount, missCount, calls,
                   hist, race>>

\* the wall clock advances
Tick ==
    /\ now < StartTime + MaxTicks * TickMs
    /\ now' = now + TickMs
    /\ last' = NoCall
    /\ UNCHANGED <<fixed, phase, data, disk, writes, hitCount, missCount, calls,
                   hist, race>>

-----------------------------------------------------------------------------
(* Specifications of the running engine: init() has completed on a fresh    *)
(* data directory, callers use the engine directly (no username)            *)

Init ==
    /\ mode \in Modes
    /\ user = [c \in Callers |-> <<>>]
    /\ phase = "ready"
    /\ data = EmptyMap
    /\ disk = NoFile
    /\ writes = {}
    /\ now = StartTime
    /\ hitCount = 0
    /\ missCount = 0
    /\ calls = [c \in Callers |-> Idle]
    /\ last = NoCall
    /\ hist = EmptyMap
    /\ race = NoRace
    /\ backupFile = NoBackup
    /\ prev = FirstEngine
    /\ backupTick = "idle"

\* keys used by the specifications below: a valid key and the empty key
SomeKeys == {<<"a">>, <<>>}

\* set, get, exists and delete by one caller, with the cleanup timer
NextGet ==
    \/ \E c \in Sequential, k \in SomeKeys, v \in Values, q \in TtlArgs :
         Set(c, k, v, q)
    \/ \E c \in Sequential, k \in SomeKeys : Get(c, k)
    \/ \E c \in Sequential, k \in SomeKeys : Exists(c, k)
    \/ \E c \in Sequential, k \in SomeKeys : Delete(c, k)
    \/ \E w \in writes : WriteDone(w)
    \/ Sweep
    \/ Tick

SpecGet == Init /\ [][NextGet]_vars

\* set, ttl, expire, delete and clear by one caller
NextTtl ==
    \/ \E c \in Sequential, k \in SomeKeys, v \in Values, q \in TtlArgs :
         Set(c, k, v, q)
    \/ \E c \in Sequential, k \in SomeKeys : Ttl(c, k)
    \/ \E c \in Sequential, k \in SomeKeys, q \in TtlArgs \ {NoSeconds} :
         Expire(c, k, q)
    \/ \E c \in Sequential, k \in SomeKeys : Delete(c, k)
    \/ \E c \in Sequential : Clear(c)
    \/ \E w \in writes : WriteDone(w)
    \/ \E w \in writes : WriteFailed(w)
    \/ Tick

SpecTtl == Init /\ [][NextTtl]_vars

\* incr, decr and append by concurrent callers, with delete
NextRmw ==
    \/ \E c \in Callers, k \in SomeKeys : IncrGet(c, k)
    \/ \E c \in Callers : IncrSet(c)
    \/ \E c \in Callers, k \in SomeKeys : DecrGet(c, k)
    \/ \E c \in Callers : DecrSet(c)
    \/ \E c \in Callers, k \in SomeKeys, s \in AppendArgs : AppendGet(c, k, s)
    \/ \E c \in Callers : AppendSet(c)
    \/ \E c \in Callers, k \in SomeKeys : Delete(c, k)
    \/ \E w \in writes : WriteDone(w)
    \/ \E w \in writes : WriteFailed(w)

SpecRmw == Init /\ [][NextRmw]_vars

\* incr by concurrent callers on keys written by set (no TTL)
NextRace ==
    \/ \E c \in Callers, k \in SomeKeys, v \in Values : Set(c, k, v, NoSeconds)
    \/ \E c \in Callers, k \in SomeKeys : IncrGet(c, k)
    \/ \E c \in Callers : IncrSet(c)
    \/ \E w \in writes : WriteDone(w)
    \/ \E w \in writes : WriteFailed(w)

SpecRace == Init /\ [][NextRace]_vars

\* seconds passed to expire: half a second, one second
ExpireArgs == {Seconds(1, 2), Seconds(1, 1)}

\* set, expire, ttl, get and exists by one caller, with the clock
NextExpire ==
    \/ \E c \in Sequential, k \in SomeKeys, q \in {NoSeconds, Seconds(1, 1)} :
         Set(c, k, Num(5), q)
    \/ \E c \in Sequential, k \in SomeKeys, q \in ExpireArgs : Expire(c, k, q)
    \/ \E c \in Sequential, k \in SomeKeys : Ttl(c, k)
    \/ \E c \in Sequential, k \in SomeKeys : Get(c, k)
    \/ \E c \in Sequential, k \in SomeKeys : Exists(c, k)
    \/ \E w \in writes : WriteDone(w)
    \/ \E w \in writes : WriteFailed(w)
    \/ Tick

SpecExpire == Init /\ [][NextExpire]_vars

\* file mode: set, delete, expire and clear by concurrent callers; every disk
\* write succeeds, in any order of completion
NextFile ==
    \/ \E c \in Callers, v \in {Num(5), Str(<<"x">>)} :
         Set(c, <<"a">>, v, NoSeconds)
    \/ \E c \in Callers : Delete(c, <<"a">>)
    \/ \E c \in Callers : Expire(c, <<"a">>, Seconds(1, 1))
    \/ \E c \in Callers : Clear(c)
    \/ \E w \in writes : WriteDone(w)

\* the running engine configured with storageMode 'file'
InitFile == Init /\ mode = "file"

SpecFile == InitFile /\ [][NextFile]_vars

\* values passed to set: a number, a string serialized to one character more
\* than maxValueSize, undefined
SetValues == {Num(5), Str(LongString), Undefined}

\* set with valid and invalid keys and values by concurrent callers, and
\* delete
NextSet ==
    \/ \E c \in Callers, k \in EngineKeys, v \in SetValues,
          q \in {NoSeconds, Seconds(1, 1)} : Set(c, k, v, q)
    \/ \E c \in Callers, k \in EngineKeys : Delete(c, k)
    \/ \E w \in writes : WriteDone(w)
    \/ \E w \in writes : WriteFailed(w)

SpecSet == Init /\ [][NextSet]_vars

-----------------------------------------------------------------------------
(* Glob patterns and keys() *)

\* pattern.replace(/\*/g, '.*').replace(/\?/g, '.'): the source of the regular
\* expression; every other character is copied as it is
RECURSIVE GlobToRegex(_)
GlobToRegex(pattern) ==
    IF pattern = <<>> THEN <<>>
    ELSE (IF Head(pattern) = "*" THEN <<".", "*">>
          ELSE IF Head(pattern) = "?" THEN <<".">>
          ELSE <<Head(pattern)>>) \o GlobToRegex(Tail(pattern))

\* whether the regular-expression atom a matches the character ch
AtomMatches(a, ch) == a = "." \/ a = ch

\* new RegExp('^' + re + '$').test(str), for expressions made of characters,
\* '.' and starred atoms
RECURSIVE RegexTest(_, _)
RegexTest(re, str) ==
    IF re = <<>> THEN str = <<>>
    ELSE IF Len(re) >= 2 /\ re[2] = "*"
    THEN \/ RegexTest(Tail(Tail(re)), str)
         \/ /\ str # <<>>
            /\ AtomMatches(re[1], Head(str))
            /\ RegexTest(re, Tail(str))
    ELSE /\ str # <<>>
         /\ AtomMatches(re[1], Head(str))
         /\ RegexTest(Tail(re), Tail(str))

\* new RegExp('^' + re + '$') throws a SyntaxError: a group is opened and
\* never closed (the patterns of the model hold no ')', no '[' and no '\')
RegexSyntaxError(re) ==
    \E i \in 1..Len(re) :
        re[i] = "(" /\ \A j \in (i + 1)..Len(re) : re[j] # ")"

\* keys(pattern) throws: the pattern is not empty and its expression does not
\* compile
keysThrows(pattern) ==
    pattern # <<>> /\ RegexSyntaxError(GlobToRegex(pattern))

\* keys(pattern): as a set; an absent or empty pattern selects every key
keys(pattern) ==
    IF pattern = <<>> THEN DOMAIN data
    ELSE {k \in DOMAIN data : RegexTest(GlobToRegex(pattern), k)}

Keys(c, pattern) ==
    /\ calls[c].pc = "idle"
    /\ IF keysThrows(pattern)
       THEN Return(c, Result("keys", <<>>, pattern, Fault, {}, NeverWritten,
                             TRUE))
       ELSE Return(c, Result("keys", <<>>, pattern, Undefined, keys(pattern),
                             NeverWritten, TRUE))
    /\ UNCHANGED <<fixed, phase, data, disk, writes, now, hitCount, missCount,
                   hist, race>>

\* stats() up to its await of calculateDiskUsage: totalKeys is read
StatsStat(c) ==
    /\ calls[c].pc = "idle"
    /\ calls' = [calls EXCEPT ![c] =
                    [Idle EXCEPT !.pc = "stat", !.op = "stats",
                                 !.cur = Num(Cardinality(DOMAIN data))]]
    /\ last' = NoCall
    /\ UNCHANGED <<fixed, phase, data, disk, writes, now, hitCount, missCount,
                   hist, race>>

\* stats() from the resumption to its return; of the KVStats returned the
\* record keeps totalKeys
StatsReturn(c) ==
    /\ calls[c].pc = "stat"
    /\ Return(c, Result("stats", <<>>, <<>>, calls[c].cur, {}, NeverWritten,
                        TRUE))
    /\ UNCHANGED <<fixed, phase, data, disk, writes, now, hitCount, missCount,
                   hist, race>>

\* keys and glob patterns passed to keys()
KeyNames == {<<"a">>, <<"a", "b">>}
Patterns == {<<>>, <<"*">>, <<"a", "*">>, <<"?">>, <<".">>, <<"(">>}

\* set, keys, stats and clear by one caller, with the clock
NextKeys ==
    \/ \E c \in Sequential, k \in KeyNames, q \in {NoSeconds, Seconds(1, 2)} :
         Set(c, k, Num(5), q)
    \/ \E c \in Sequential, p \in Patterns : Keys(c, p)
    \/ \E c \in Sequential : StatsStat(c)
    \/ \E c \in Sequential : StatsReturn(c)
    \/ \E c \in Sequential : Clear(c)
    \/ \E w \in writes : WriteDone(w)
    \/ \E w \in writes : WriteFailed(w)
    \/ Tick

SpecKeys == Init /\ [][NextKeys]_vars

-----------------------------------------------------------------------------
(* The tool front-end with user isolation (index.ts) *)

\* getUserKey: `${username}:${key}`
getUserKey(username, key) == username \o <<":">> \o key

\* whether sub occurs in str at position i
OccursAt(str, sub, i) ==
    i + Len(sub) - 1 <= Len(str) /\ SubSeq(str, i, i + Len(sub) - 1) = sub

\* str.replace(sub, ''): the first occurrence of sub is removed
RemoveFirst(str, sub) ==
    IF \E i \in 1..Len(str) : OccursAt(str, sub, i)
    THEN LET i == CHOOSE j \in 1..Len(str) :
                    /\ OccursAt(str, sub, j)
                    /\ \A h \in 1..(j - 1) : ~OccursAt(str, sub, h)
         IN SubSeq(str, 1, i - 1) \o SubSeq(str, i + Len(sub), Len(str))
    ELSE str

\* tool kv_set
KvSet(c, key, value, ttlSeconds) ==
    Set(c, getUserKey(user[c], key), value, ttlSeconds)

\* tool kv_get
KvGet(c, key) == Get(c, getUserKey(user[c], key))

\* tool kv_delete
KvDelete(c, key) == Delete(c, getUserKey(user[c], key))

\* tool kv_exists
KvExists(c, key) == Exists(c, getUserKey(user[c], key))

\* tool kv_keys: the keys matching the user's pattern, the username prefix
\* stripped from each
KvKeys(c, pattern) ==
    /\ calls[c].pc = "idle"
    /\ LET userPattern == IF pattern # <<>>
                          THEN getUserKey(user[c], pattern)
                          ELSE getUserKey(user[c], <<"*">>)
           cleanKeys == {RemoveFirst(k, user[c] \o <<":">>) :
                            k \in keys(userPattern)}
       IN Return(c, Result("kv_keys", <<>>, pattern, Undefined, cleanKeys,
                           NeverWritten, TRUE))
    /\ UNCHANGED <<fixed, phase, data, disk, writes, now, hitCount, missCount,
                   hist, race>>

\* usernames: two of which one extends the other past a colon, and one that
\* is a glob character
Usernames == {<<"a">>, <<"a", ":", "b">>, <<"?">>}

\* keys and patterns passed to the tools
ToolKeys == {<<"c">>, <<"b", ":", "c">>}
ToolPatterns == {<<>>, <<"*">>, <<"c">>}
ToolValues == {Num(1)}

InitUsers ==
    /\ mode \in Modes
    /\ user \in [Callers -> Usernames]
    /\ user["c1"] = <<"a">>
    /\ user["c1"] # user["c2"]
    /\ phase = "ready"
    /\ data = EmptyMap
    /\ disk = NoFile
    /\ writes = {}
    /\ now = StartTime
    /\ hitCount = 0
    /\ missCount = 0
    /\ calls = [c \in Callers |-> Idle]
    /\ last = NoCall
    /\ hist = EmptyMap
    /\ race = NoRace
    /\ backupFile = NoBackup
    /\ prev = FirstEngine
    /\ backupTick = "idle"

NextUsers ==
    \/ \E c \in Callers, k \in ToolKeys, v \in ToolValues :
         KvSet(c, k, v, NoSeconds)
    \/ \E c \in Callers, k \in ToolKeys : KvGet(c, k)
    \/ \E c \in Callers, k \in ToolKeys : KvDelete(c, k)
    \/ \E c \in Callers, k \in ToolKeys : KvExists(c, k)
    \/ \E c \in Callers, p \in ToolPatterns : KvKeys(c, p)
    \/ \E w \in writes : WriteDone(w)

SpecUsers == InitUsers /\ [][NextUsers]_vars

-----------------------------------------------------------------------------
(* The HTTP front-end (index.ts, KVMCPServer.setupHttpServer) *)

\* POST /kv/:key: the engine's set, answered with res.json({success, ...}),
\* whatever success is (set does not throw, so the catch is not reached)
HttpPostKv(c, key, value, ttlSeconds) ==
    /\ calls[c].pc = "idle"
    /\ SetBody(c, [Result("set", key, <<>>, Bool(TRUE), {}, NeverWritten, TRUE)
                      EXCEPT !.status = HttpOk],
               key, value, ttlSeconds, FALSE, <<>>)
    /\ race' = RaceTouched(key)
    /\ UNCHANGED <<fixed, phase, disk, now, hitCount, missCount>>

\* GET /kv/:key: the engine's get, answered with res.json({success: true,
\* value, ...})
HttpGetKv(c, key) ==
    /\ calls[c].pc = "idle"
    /\ CanCount
    /\ data' = get(key).data
    /\ hitCount' = hitCount + get(key).hit
    /\ missCount' = missCount + get(key).miss
    /\ Return(c, [Result("get", key, <<>>, get(key).ret, {}, NeverWritten, TRUE)
                    EXCEPT !.status = HttpOk])
    /\ UNCHANGED <<fixed, phase, disk, writes, now, hist, race>>

\* GET /keys?pattern=...: the engine's keys; a throw is caught and answered
\* with status 500
HttpGetKeys(c, pattern) ==
    /\ calls[c].pc = "idle"
    /\ IF keysThrows(pattern)
       THEN Return(c, [Result("keys", <<>>, pattern, Fault, {}, NeverWritten,
                              TRUE) EXCEPT !.status = HttpServerError])
       ELSE Return(c, [Result("keys", <<>>, pattern, Undefined, keys(pattern),
                              NeverWritten, TRUE) EXCEPT !.status = HttpOk])
    /\ UNCHANGED <<fixed, phase, data, disk, writes, now, hitCount, missCount,
                   hist, race>>

\* keys in the path of a request: the route /kv/:key matches no empty key
HttpKeys == {<<"a">>, LongKey}

\* requests to the HTTP front-end by concurrent clients
NextHttp ==
    \/ \E c \in Callers, k \in HttpKeys, v \in SetValues :
         HttpPostKv(c, k, v, NoSeconds)
    \/ \E c \in Callers, k \in HttpKeys : HttpGetKv(c, k)
    \/ \E c \in Callers, p \in {<<>>, <<"a", "*">>, <<"(">>} : HttpGetKeys(c, p)
    \/ \E w \in writes : WriteDone(w)
    \/ \E w \in writes : WriteFailed(w)

SpecHttp == Init /\ [][NextHttp]_vars

-----------------------------------------------------------------------------
(* Startup: the constructor has returned, init() is still running *)

\* an entry written by an earlier run of the engine
StoredEntry(v) ==
    [value |-> v, type |-> TypeTag(v), createdAt |-> StartTime - TickMs,
     expiresAt |-> NoNumber]

\* stores the data file can hold when the engine starts
DiskMaps == {EmptyMap, [k \in {<<"a">>} |-> StoredEntry(Num(7))]}

\* init() resumes after `await fs.mkdir`: it starts loadFromDisk unless the
\* mode is memory, in which case it goes on to set up the timers
InitAfterMkdir ==
    /\ phase = "mkdir"
    /\ phase' = IF mode # "memory" THEN "loading" ELSE "ready"
    /\ last' = NoCall
    /\ UNCHANGED <<fixed, data, disk, writes, now, hitCount, missCount, calls,
                   hist, race>>

\* loadFromDisk resumes after `await fs.readFile`: a file that parses replaces
\* the store, a missing file leaves it; init() then sets up the timers
loadFromDisk ==
    /\ phase = "loading"
    /\ phase' = "ready"
    /\ data' = IF disk.state = "ok" THEN disk.map ELSE data
    /\ hist' = IF disk.state = "ok"
               THEN [k \in (DOMAIN hist) \cup (DOMAIN disk.map) |->
                       IF k \in DOMAIN hist THEN hist[k]
                       ELSE [NeverWritten EXCEPT !.kind = "loaded", !.ok = TRUE,
                                                 !.v = disk.map[k].value]]
               ELSE hist
    /\ last' = NoCall
    /\ UNCHANGED <<fixed, disk, writes, now, hitCount, missCount, calls, race>>

\* loadFromDisk reads the file while an fs.writeFile is rewriting it: the text
\* read is cut short, JSON.parse throws, the error is logged and the store is
\* left as it is
loadFromDiskTorn ==
    /\ phase = "loading"
    /\ writes # {}
    /\ phase' = "ready"
    /\ last' = NoCall
    /\ UNCHANGED <<fixed, data, disk, writes, now, hitCount, missCount, calls,
                   hist, race>>

InitStartup ==
    /\ mode \in Modes
    /\ user = [c \in Callers |-> <<>>]
    /\ phase = "mkdir"
    /\ data = EmptyMap
    /\ disk \in {NoFile} \cup {FileOf(m) : m \in DiskMaps}
    /\ writes = {}
    /\ now = StartTime
    /\ hitCount = 0
    /\ missCount = 0
    /\ calls = [c \in Callers |-> Idle]
    /\ last = NoCall
    /\ hist = EmptyMap
    /\ race = NoRace
    /\ backupFile = NoBackup
    /\ prev = FirstEngine
    /\ backupTick = "idle"

\* set and get by one caller while init() runs and afterwards
NextStartup ==
    \/ InitAfterMkdir
    \/ loadFromDisk
    \/ loadFromDiskTorn
    \/ \E c \in Sequential, k \in SomeKeys, v \in Values, q \in TtlArgs :
         Set(c, k, v, q)
    \/ \E c \in Sequential, k \in SomeKeys : Get(c, k)
    \/ \E w \in writes : WriteDone(w)
    \/ \E w \in writes : WriteFailed(w)
    \/ Tick

SpecStartup == InitStartup /\ [][NextStartup]_vars

-----------------------------------------------------------------------------
(* Shutdown, backup, and a fresh engine on the same data directory *)

\* close(): the timers are cleared (timers that init() has not yet set up
\* are not), and unless the mode is memory the store is written to the data
\* file before close() returns
Close(c) ==
    /\ calls[c].pc = "idle"
    /\ phase' = IF phase = "ready" THEN "closed" ELSE phase
    /\ prev' = [how |-> "closed", store |-> data]
    /\ data' = data
    /\ SaveAndReturn(c, Result("close", <<>>, <<>>, Undefined, {},
                               NeverWritten, TRUE),
                     mode # "memory")
    /\ UNCHANGED <<mode, user, backupFile, backupTick, disk, now, hitCount,
                   missCount, hist, race>>

\* backup() up to `await fs.mkdir`; cur keeps the time that names the file
BackupMkdir(c) ==
    /\ calls[c].pc = "idle"
    /\ calls' = [calls EXCEPT ![c] =
                    [Idle EXCEPT !.pc = "backup-mkdir", !.op = "backup",
                                 !.cur = Num(now)]]
    /\ last' = NoCall
    /\ UNCHANGED <<fixed, phase, data, disk, writes, now, hitCount, missCount,
                   hist, race>>

\* backup() from the resumption after mkdir to `await fs.writeFile`: the
\* document {timestamp, config, data} is built from the store as it is now
BackupWrite(c) ==
    /\ calls[c].pc = "backup-mkdir"
    /\ backupFile' = [state |-> "writing", timestamp |-> now,
                      data |-> ToDisk(data)]
    /\ calls' = [calls EXCEPT ![c].pc = "backup-write"]
    /\ last' = NoCall
    /\ UNCHANGED <<mode, user, prev, backupTick, phase, data, disk, writes,
                   now, hitCount, missCount, hist, race>>

\* the write of the backup file completes and backup() returns the path
BackupDone(c) ==
    /\ calls[c].pc = "backup-write"
    /\ backupFile' = [backupFile EXCEPT !.state = "ok"]
    /\ Return(c, Result("backup", <<>>, <<>>, calls[c].cur, {}, NeverWritten,
                        TRUE))
    /\ UNCHANGED <<mode, user, prev, backupTick, phase, data, disk, writes,
                   now, hitCount, missCount, hist, race>>

\* the write of the backup file fails: backup() has no catch, the caller's
\* promise is rejected
BackupFailed(c) ==
    /\ calls[c].pc = "backup-write"
    /\ backupFile' = NoBackup
    /\ Return(c, Result("backup", <<>>, <<>>, Fault, {}, NeverWritten, TRUE))
    /\ UNCHANGED <<mode, user, prev, backupTick, phase, data, disk, writes,
                   now, hitCount, missCount, hist, race>>

\* a member of a parsed JSON document that is not an entry object, as the
\* engine reads it: its .value and its .expiresAt are undefined
NotAnEntry ==
    [value |-> Undefined, type |-> "undefined", createdAt |-> 0,
     expiresAt |-> NoNumber]

\* the top-level members of the document written by backup()
BackupMembers ==
    {<<"t", "i", "m", "e", "s", "t", "a", "m", "p">>,
     <<"c", "o", "n", "f", "i", "g">>,
     <<"d", "a", "t", "a">>}

\* new Map(Object.entries(parsed)) when the text parsed is a backup file: the
\* keys are the members of the document, none of which is an entry (no key
\* of the model is named "value" or "expiresAt")
BackupAsStore == [k \in BackupMembers |-> NotAnEntry]

\* the old process has ended and `new KVStore(config)` runs in a new one on
\* the same data directory: an empty map, zero counters, init() started
Constructor ==
    /\ \A c \in Callers : calls[c].pc = "idle"
    /\ writes = {}
    /\ phase' = "mkdir"
    /\ data' = EmptyMap
    /\ hitCount' = 0
    /\ missCount' = 0
    /\ last' = NoCall
    /\ hist' = EmptyMap
    /\ race' = NoRace
    /\ backupTick' = "idle"
    /\ UNCHANGED <<mode, user, backupFile, writes, now, calls>>

\* a fresh engine is created right after close() has returned
NewEngine ==
    /\ last.op = "close"
    /\ Constructor
    /\ prev' = [prev EXCEPT !.how = "restarted"]
    /\ UNCHANGED disk

\* the backup file is put in place of the data file and a fresh engine is
\* created
NewEngineFromBackup ==
    /\ backupFile.state = "ok"
    /\ Constructor
    /\ disk' = FileOf(BackupAsStore)
    /\ prev' = [how |-> "restored", store |-> backupFile.data]

\* values passed to set: a number and NaN
RestartValues == {Num(5), NaN}

\* set by one caller, close, and a fresh engine hydrating from the data file;
\* every write of the data file succeeds
NextRestart ==
    \/ \E c \in Sequential, v \in RestartValues,
          q \in {NoSeconds, Seconds(1, 1)} : Set(c, <<"a">>, v, q)
    \/ \E c \in Sequential : Close(c)
    \/ NewEngine
    \/ InitAfterMkdir
    \/ loadFromDisk
    \/ \E w \in writes : WriteDone(w)
    \/ Tick

SpecRestart == Init /\ [][NextRestart]_vars

\* set and backup by one caller, and a fresh engine hydrating from the backup
\* file; every write of the data file succeeds
NextBackup ==
    \/ \E c \in Sequential, q \in {NoSeconds, Seconds(1, 1)} :
         Set(c, <<"a">>, Num(5), q)
    \/ \E c \in Sequential : BackupMkdir(c)
    \/ \E c \in Sequential : BackupWrite(c)
    \/ \E c \in Sequential : BackupDone(c)
    \/ \E c \in Sequential : BackupFailed(c)
    \/ NewEngineFromBackup
    \/ InitAfterMkdir
    \/ loadFromDisk
    \/ \E w \in writes : WriteDone(w)
    \/ Tick

SpecBackup == Init /\ [][NextBackup]_vars

-----------------------------------------------------------------------------
(* Claims about set, get, exists and ttl *)

\* the set that last wrote key k has returned to its caller
Returned(k) ==
    \A c \in Callers :
        ~(calls[c].pc = "saving" /\ calls[c].res.key = k
          /\ calls[c].res.op \in {"set", "incr", "decr", "append"})

\* the last mutating call on key k is a set(k, v) without TTL that returned true
PlainSet(k) ==
    /\ H(k).kind = "set"
    /\ H(k).ttl = NoSeconds
    /\ Returned(k)

\* C1: after set(key, value) without TTL has returned true, and as long as no
\* other set, delete, clear, incr, decr, append or expire has touched the key,
\* get(key) returns exactly that value and exists(key) returns true
C1_SetThenGet ==
    (last.op \in {"get", "exists"} /\ PlainSet(last.key))
    => /\ last.op = "get" => last.ret = H(last.key).v
       /\ last.op = "exists" => last.ret = Bool(TRUE)

\* C1 witness: in file mode a get returns the value of an earlier set without
\* TTL, after the clock has advanced
C1_Witness ==
    /\ last.op = "get"
    /\ PlainSet(last.key)
    /\ mode = "file"
    /\ now > H(last.key).at
    /\ last.ret = Str(<<"x">>)

\* the last mutating call on key k is a set with a positive TTL, and the clock
\* is past the TTL counted from that set
SetHasExpired(k) ==
    /\ H(k).kind = "set"
    /\ H(k).ttl.def
    /\ H(k).ttl.num > 0
    /\ now > H(k).at + SecondsToMs(H(k).ttl)

\* C2: once the clock is past ttl seconds after set(key, value, ttl), ttl > 0,
\* get(key) returns undefined and exists(key) returns false, whether or not
\* the cleanup timer has run, and after the call the store has no entry for key
C2_ExpiredIsAbsent ==
    (last.op \in {"get", "exists"} /\ SetHasExpired(last.key))
    => /\ last.op = "get" => last.ret = Undefined
       /\ last.op = "exists" => last.ret = Bool(FALSE)
       /\ last.key \notin DOMAIN data

\* C2 witness: a get on a key whose TTL has run out counts a miss and returns
\* undefined
C2_Witness ==
    /\ last.op = "get"
    /\ SetHasExpired(last.key)
    /\ last.ret = Undefined
    /\ missCount = 1

\* the last mutating call on key k is a set with a positive TTL that has
\* returned, and the clock has not advanced since that set read it
JustSetWithTtl(k) ==
    /\ H(k).kind = "set"
    /\ H(k).ttl.def
    /\ H(k).ttl.num > 0
    /\ Returned(k)
    /\ now = H(k).at

\* C9 as stated: ttl(key) right after set(key, value, ttl), ttl > 0, returns r
\* with 0 < r <= ttl
C9_TtlAtMostTtl ==
    (last.op = "ttl" /\ JustSetWithTtl(last.key))
    => /\ 0 < last.ret.n
       /\ last.ret.n * H(last.key).ttl.den <= H(last.key).ttl.num

\* C9 amended: ttl(key) right after a successful set(key, value, ttl), ttl > 0,
\* returns the integer r = ceil(ttl): 0 < r, and r - 1 < ttl <= r
C9_TtlIsCeilOfTtl ==
    (last.op = "ttl" /\ JustSetWithTtl(last.key))
    => /\ 0 < last.ret.n
       /\ (last.ret.n - 1) * H(last.key).ttl.den < H(last.key).ttl.num
       /\ H(last.key).ttl.num <= last.ret.n * H(last.key).ttl.den

\* C9 witness: ttl right after a set with a TTL of half a second returns 1
C9_Witness ==
    /\ last.op = "ttl"
    /\ JustSetWithTtl(last.key)
    /\ H(last.key).ttl = Seconds(1, 2)
    /\ last.ret = Num(1)

\* C10: ttl(key) returns -2 for a key that was never set, or was deleted or
\* cleared since, and -1 for a key that is present and whose expiry was last
\* determined by a set without TTL (no expire since)
C10_TtlSentinels ==
    last.op = "ttl"
    => /\ H(last.key).kind \in {"never", "removed"} => last.ret = Num(-2)
       /\ (/\ H(last.key).kind = "set"
           /\ H(last.key).ttl = NoSeconds
           /\ last.key \in DOMAIN data) => last.ret = Num(-1)

\* C10 witness: ttl returns -2 for a key that was set and then cleared
C10_Witness ==
    /\ last.op = "ttl"
    /\ H(last.key).kind = "removed"
    /\ last.ret = Num(-2)
    /\ last.key = <<"a">>

-----------------------------------------------------------------------------
(* Claims about incr, decr and append *)

\* the call that just returned made the last write to its key: no other
\* caller has written the key since
LastWriteIsMine ==
    /\ H(last.key).kind = last.op
    /\ H(last.key).by = last.caller

\* C7: on a valid key, incr on a missing key returns 1 and an incr that
\* follows an incr returns the previous result plus 1; decr on a missing key
\* returns -1 and a decr that follows a decr returns the previous result
\* minus 1
C7_IncrDecrStep ==
    /\ (last.op = "incr" /\ validateKey(last.key))
       => /\ last.pre.kind \in {"never", "removed"} => last.ret = Num(1)
          /\ last.pre.kind = "incr" => last.ret = Num(last.pre.v.n + 1)
    /\ (last.op = "decr" /\ validateKey(last.key))
       => /\ last.pre.kind \in {"never", "removed"} => last.ret = Num(-1)
          /\ last.pre.kind = "decr" => last.ret = Num(last.pre.v.n - 1)

\* C7 witness: the second of two incr calls on a key returns 2
C7_Witness ==
    /\ last.op = "incr"
    /\ last.pre.kind = "incr"
    /\ last.pre.v = Num(1)
    /\ last.clean
    /\ last.ret = Num(2)

\* the call that just returned is an append that followed, with no other
\* write to the key in between or since, an append on a missing key
SecondAppend ==
    /\ last.op = "append"
    /\ last.clean
    /\ LastWriteIsMine
    /\ last.pre.kind = "append"
    /\ last.pre.miss

\* the stored value is s1 followed by s2, and the call returned its length
ConcatenationStored ==
    /\ last.key \in DOMAIN data
    /\ data[last.key].value = Str(last.pre.arg \o last.arg)
    /\ last.ret = Num(Len(last.pre.arg \o last.arg))

\* C8 as stated: for every key and strings s1, s2, append(key, s1) on a missing
\* key followed by append(key, s2) leaves s1 followed by s2 stored and returns
\* its length
C8_AppendTwice == SecondAppend => ConcatenationStored

\* C8 amended: the same for every valid key and strings s1, s2 such that s1 and
\* s1 followed by s2 serialize within maxValueSize
C8_AppendTwiceValid ==
    (/\ SecondAppend
     /\ validateKey(last.key)
     /\ validateValue(Str(last.pre.arg))
     /\ validateValue(Str(last.pre.arg \o last.arg)))
    => ConcatenationStored

\* C8 witness: append "a" then append "b" on a missing key returns 2
C8_Witness ==
    /\ SecondAppend
    /\ last.pre.arg = <<"a">>
    /\ last.arg = <<"b">>
    /\ last.ret = Num(2)
    /\ data[last.key].value = Str(<<"a", "b">>)

\* C3: when the incr calls of a group all started before any of them completed,
\* on a key holding the number v, and all have now completed with no other
\* write to the key, the stored value is v plus the number of calls
C3_NoLostUpdate ==
    (race.ok /\ race.started # {} /\ race.started = race.done)
    => /\ race.key \in DOMAIN data
       /\ data[race.key].value = Num(race.base + Cardinality(race.started))

-----------------------------------------------------------------------------
(* Claims about startup and about user isolation *)

\* C4: from the moment the constructor returns, in every storage mode, a get
\* that follows a set(key, v) that returned true, with no other write to the
\* key in between and before the entry expires, returns v: hydration from disk
\* does not discard or overwrite the write
C4_ReadYourWrites ==
    (/\ last.op = "get"
     /\ H(last.key).kind = "set"
     /\ Returned(last.key)
     /\ ~(TruthySeconds(H(last.key).ttl)
          /\ now > H(last.key).at + SecondsToMs(H(last.key).ttl)))
    => last.ret = H(last.key).v

\* C5: a kv_get issued under one username never reads an entry written under
\* another username
C5_UsersSeparated ==
    (last.op = "get" /\ last.ret # Undefined)
    => H(last.key).user = last.user

\* C6: every name kv_keys returns to username u is a key u stored: the entry
\* of u's engine key for that name exists and was written under u
C6_KeysOwnOnly ==
    last.op = "kv_keys"
    => \A name \in last.keys :
          /\ getUserKey(last.user, name) \in DOMAIN data
          /\ H(getUserKey(last.user, name)).user = last.user

-----------------------------------------------------------------------------
(* Claims about the read paths ttl and keys *)

\* C11: ttl(key) on a key whose TTL has run out returns -2 and removes the
\* entry from the store, whether or not the cleanup timer has run
C11_TtlExpiredIsAbsent ==
    (last.op = "ttl" /\ SetHasExpired(last.key))
    => /\ last.ret = Num(TtlNoKey)
       /\ last.key \notin DOMAIN data

\* C12: keys(pattern), with or without a pattern, never returns a key whose
\* entry has an expiresAt in the past
C12_KeysAreLive ==
    last.op = "keys" => \A k \in last.keys : ~IsExpired(data[k])

\* the glob match the claim describes: '*' matches any run of characters, '?'
\* exactly one character, every other character only itself
RECURSIVE GlobMatch(_, _)
GlobMatch(pattern, str) ==
    IF pattern = <<>> THEN str = <<>>
    ELSE IF Head(pattern) = "*"
    THEN \/ GlobMatch(Tail(pattern), str)
         \/ str # <<>> /\ GlobMatch(pattern, Tail(str))
    ELSE /\ str # <<>>
         /\ Head(pattern) = "?" \/ Head(pattern) = Head(str)
         /\ GlobMatch(Tail(pattern), Tail(str))

\* C13: keys(pattern) returns exactly the stored keys the glob matches, every
\* character other than '*' and '?' standing for itself, and all keys when no
\* pattern is given
C13_KeysMatchGlob ==
    (last.op = "keys" /\ last.ret # Fault)
    => last.keys = IF last.arg = <<>> THEN DOMAIN data
                   ELSE {k \in DOMAIN data : GlobMatch(last.arg, k)}

\* every key ever written was last removed, and no clear is still waiting for
\* its disk write
ClearedAndUntouched ==
    /\ \A k \in DOMAIN hist : hist[k].kind = "removed"
    /\ \A c \in Callers :
          ~(calls[c].pc = "saving" /\ calls[c].res.op = "clear")

\* C14: after clear() has completed and until the next write, keys() without
\* pattern returns no key and stats() reports totalKeys = 0
C14_ClearEmpties ==
    ClearedAndUntouched
    => /\ (last.op = "keys" /\ last.arg = <<>>) => last.keys = {}
       /\ last.op = "stats" => last.ret = Num(0)
       /\ data = EmptyMap

\* C14 witness: in file mode stats() reports no key after a clear of a store
\* that held key "a"
C14_Witness ==
    /\ ClearedAndUntouched
    /\ last.op = "stats"
    /\ last.ret = Num(0)
    /\ <<"a">> \in DOMAIN hist
    /\ mode = "file"

\* C16: every engine operation completes with a result and never raises a
\* fault
C16_NoFault == last.ret # Fault

-----------------------------------------------------------------------------
(* Claims about failures *)

\* the key is empty or longer than maxKeySize
InvalidKey(key) == Len(key) = 0 \/ Len(key) > maxKeySize

\* the value serializes to more than maxValueSize characters
ValueTooLarge(value) == JsonLength(value) > maxValueSize

\* C15: a set whose key is empty or too long, or whose value serializes to
\* more than maxValueSize, returns false in the same step (nothing is raised),
\* and leaves the store, the data file and the disk writes in flight as they
\* were
C15_RejectedSetChangesNothing ==
    [][\A c \in Callers, k \in EngineKeys, v \in SetValues, q \in TtlArgs :
          (Set(c, k, v, q) /\ (InvalidKey(k) \/ ValueTooLarge(v)))
          => /\ last'.op = "set"
             /\ last'.caller = c
             /\ last'.ret = Bool(FALSE)
             /\ data' = data
             /\ disk' = disk
             /\ writes' = writes]_vars

\* C15 witness: in file mode a set with a key that is too long returns false
\* while the store holds an entry
C15_Witness ==
    /\ last.op = "set"
    /\ last.key = LongKey
    /\ last.ret = Bool(FALSE)
    /\ <<"a">> \in DOMAIN data
    /\ mode = "file"

\* C17: whenever the engine's set returns false for POST /kv/:key, the status
\* of the HTTP response is not in the 2xx range
C17_FailedSetIsNot2xx ==
    (last.status # 0 /\ last.op = "set" /\ last.ret = Bool(FALSE))
    => ~(200 <= last.status /\ last.status < 300)

-----------------------------------------------------------------------------
(* Claims about delete, expire and the data file *)

\* C18: delete(key) returns true exactly when exists(key) issued just before
\* it would have returned true (an entry past its expiry counts as absent);
\* after it the key is not in the store, and no other key's entry is changed
C18_DeleteReportsExistence ==
    [][\A c \in Callers, k \in SomeKeys :
          Delete(c, k)
          => LET r == IF calls'[c].pc = "saving" THEN calls'[c].res ELSE last'
             IN /\ r.op = "delete"
                /\ r.ret = Bool(exists(k).ret)
                /\ k \notin DOMAIN data'
                /\ \A x \in (DOMAIN data) \ {k} :
                      x \in DOMAIN data' /\ data'[x] = data[x]]_vars

\* the last mutating call on key k is an expire(k, seconds), seconds > 0, and
\* the clock has not advanced since
JustExpireCalled(k) ==
    /\ H(k).kind = "expire"
    /\ H(k).ttl.num > 0
    /\ now = H(k).at

\* the part of C19 about one step of expire: on a key that is not present it
\* returns false and changes nothing; on a present live key it returns true
\* and leaves the entry's value, type and createdAt, and every other entry, as
\* they were
ExpireStep ==
    \A c \in Callers, k \in SomeKeys, q \in ExpireArgs :
        Expire(c, k, q)
        => LET r == IF calls'[c].pc = "saving" THEN calls'[c].res ELSE last'
           IN /\ r.op = "expire"
              /\ k \notin DOMAIN data
                 => /\ r.ret = Bool(FALSE)
                    /\ data' = data /\ disk' = disk /\ writes' = writes
              /\ (k \in DOMAIN data /\ ~IsExpired(data[k]))
                 => /\ r.ret = Bool(TRUE)
                    /\ DOMAIN data' = DOMAIN data
                    /\ data'[k].value = data[k].value
                    /\ data'[k].type = data[k].type
                    /\ data'[k].createdAt = data[k].createdAt
                    /\ \A x \in (DOMAIN data) \ {k} : data'[x] = data[x]

\* the part of C19 about what follows: once the clock is past the seconds
\* given to expire, get and exists report the key as not found
ExpireTakesEffect ==
    (/\ last.op \in {"get", "exists"}
     /\ H(last.key).kind = "expire"
     /\ H(last.key).ttl.num > 0
     /\ now > H(last.key).at + SecondsToMs(H(last.key).ttl))
    => /\ last.op = "get" => last.ret = Undefined
       /\ last.op = "exists" => last.ret = Bool(FALSE)

\* C19 as stated: expire behaves as above, and ttl(key) right after
\* expire(key, seconds) returns r with 0 < r <= seconds
C19_ExpireTtlAtMostSeconds ==
    /\ [][ExpireStep]_vars
    /\ [](/\ ExpireTakesEffect
          /\ (last.op = "ttl" /\ JustExpireCalled(last.key))
             => /\ 0 < last.ret.n
                /\ last.ret.n * H(last.key).ttl.den <= H(last.key).ttl.num)

\* C19 amended: expire behaves as above, and ttl(key) right after
\* expire(key, seconds) returns the integer r = ceil(seconds): 0 < r and
\* r - 1 < seconds <= r
C19_ExpireTtlIsCeil ==
    /\ [][ExpireStep]_vars
    /\ [](/\ ExpireTakesEffect
          /\ (last.op = "ttl" /\ JustExpireCalled(last.key))
             => /\ 0 < last.ret.n
                /\ (last.ret.n - 1) * H(last.key).ttl.den < H(last.key).ttl.num
                /\ H(last.key).ttl.num <= last.ret.n * H(last.key).ttl.den)

\* C19 witness: ttl right after expire(key, 0.5) on a key set without TTL
\* returns 1
C19_Witness ==
    /\ last.op = "ttl"
    /\ JustExpireCalled(last.key)
    /\ H(last.key).ttl = Seconds(1, 2)
    /\ H(last.key).v = Num(5)
    /\ last.ret = Num(1)

\* the live entries of a map: those not past their expiry
Live(m) == [k \in {x \in DOMAIN m : ~IsExpired(m[x])} |-> m[k]]

\* no caller is inside an engine call
Quiescent == \A c \in Callers : calls[c].pc = "idle"

\* C20: in file mode, whenever no mutating operation is in progress, the live
\* entries recorded in the data file equal the live entries of the store
C20_FileMatchesMemory ==
    (mode = "file" /\ Quiescent) => Live(disk.map) = Live(data)

-----------------------------------------------------------------------------
(* Specification of the counters: every method of the engine and every     *)
(* timer in hybrid mode, one caller, one key, every disk write succeeds;    *)
(* the store is filled by incr, decr and append, the clock stands still,   *)
(* and an entry is made to expire by expire() with a negative argument     *)

\* the running engine configured with storageMode 'hybrid'
InitHybrid == Init /\ mode = "hybrid"

NextCounters ==
    \/ \E c \in Sequential : Get(c, <<"a">>)
    \/ \E c \in Sequential : Exists(c, <<"a">>)
    \/ \E c \in Sequential : Delete(c, <<"a">>)
    \/ \E c \in Sequential : Expire(c, <<"a">>, Seconds(-1, 1))
    \/ \E c \in Sequential : Ttl(c, <<"a">>)
    \/ \E c \in Sequential : Keys(c, <<"*">>)
    \/ \E c \in Sequential : IncrGet(c, <<"a">>)
    \/ \E c \in Sequential : IncrSet(c)
    \/ \E c \in Sequential : DecrGet(c, <<"a">>)
    \/ \E c \in Sequential : DecrSet(c)
    \/ \E c \in Sequential : AppendGet(c, <<"a">>, <<"b">>)
    \/ \E c \in Sequential : AppendSet(c)
    \/ \E c \in Sequential : Clear(c)
    \/ \E c \in Sequential : StatsStat(c)
    \/ \E c \in Sequential : StatsReturn(c)
    \/ \E c \in Sequential : BackupMkdir(c)
    \/ \E c \in Sequential : BackupWrite(c)
    \/ \E c \in Sequential : BackupDone(c)
    \/ \E w \in writes : WriteDone(w)
    \/ Sweep
    \/ Sync

SpecCounters == InitHybrid /\ [][NextCounters]_vars

-----------------------------------------------------------------------------
(* Specification of the TTL argument of set: absent, zero, negative and     *)
(* positive                                                                 *)

\* ttlSeconds passed to set: absent, 0, -0.5, 1
SignedTtls == {NoSeconds, Seconds(0, 1), Seconds(-1, 2), Seconds(1, 1)}

\* set, ttl and get by one caller, with the clock
NextSigns ==
    \/ \E c \in Sequential, q \in SignedTtls : Set(c, <<"a">>, Num(5), q)
    \/ \E c \in Sequential : Ttl(c, <<"a">>)
    \/ \E c \in Sequential : Get(c, <<"a">>)
    \/ \E w \in writes : WriteDone(w)
    \/ \E w \in writes : WriteFailed(w)
    \/ Tick

SpecSigns == Init /\ [][NextSigns]_vars

-----------------------------------------------------------------------------
(* Specification of incr, decr and append on keys written by set with and   *)
(* without TTL                                                              *)

\* set with a string on one key, incr, decr and append on that key and on the
\* empty key, by one caller, with the clock; every disk write succeeds
NextInPlace ==
    \/ \E c \in Sequential, q \in {NoSeconds, Seconds(1, 2)} :
         Set(c, <<"a">>, Str(<<"x">>), q)
    \/ \E c \in Sequential, k \in SomeKeys : IncrGet(c, k)
    \/ \E c \in Sequential : IncrSet(c)
    \/ \E c \in Sequential, k \in SomeKeys : DecrGet(c, k)
    \/ \E c \in Sequential : DecrSet(c)
    \/ \E c \in Sequential, k \in SomeKeys, s \in {<<"b">>, LongString} :
         AppendGet(c, k, s)
    \/ \E c \in Sequential : AppendSet(c)
    \/ \E w \in writes : WriteDone(w)
    \/ Tick

SpecInPlace == Init /\ [][NextInPlace]_vars

-----------------------------------------------------------------------------
(* Specifications with the timers under fairness                            *)

\* the fs.writeFile started by owner o settles: it completes or it fails
WriteSettles(o) ==
    \E w \in writes : w.owner = o /\ (WriteDone(w) \/ WriteFailed(w))

\* the fs.writeFile started by owner o completes
WriteSucceeds(o) == \E w \in writes : w.owner = o /\ WriteDone(w)

\* who starts disk writes: the callers, the cleanup timer and the sync timer
Owners == Callers \cup {"sweep", "sync"}

\* set and ttl by one caller, close, and the cleanup timer; no call reads a
\* key; disk writes complete or fail
NextSweep ==
    \/ \E c \in Sequential, q \in {NoSeconds, Seconds(1, 2)} :
         Set(c, <<"a">>, Num(5), q)
    \/ \E c \in Sequential : Ttl(c, <<"a">>)
    \/ \E c \in Sequential : Close(c)
    \/ \E w \in writes : WriteDone(w)
    \/ \E w \in writes : WriteFailed(w)
    \/ Sweep
    \/ Tick

\* setInterval keeps calling the cleanup callback until clearInterval, and
\* every fs.writeFile settles
FairSweep ==
    /\ WF_vars(Sweep)
    /\ \A o \in Owners : WF_vars(WriteSettles(o))

SpecSweep == Init /\ [][NextSweep]_vars /\ FairSweep

\* hybrid mode: set, delete, expire, incr, decr, append and clear by one
\* caller on one key, and the sync timer; the clock stands still and every
\* disk write succeeds
NextSync ==
    \/ \E c \in Sequential : Set(c, <<"a">>, Num(5), NoSeconds)
    \/ \E c \in Sequential : Delete(c, <<"a">>)
    \/ \E c \in Sequential : Expire(c, <<"a">>, Seconds(1, 1))
    \/ \E c \in Sequential : IncrGet(c, <<"a">>)
    \/ \E c \in Sequential : IncrSet(c)
    \/ \E c \in Sequential : DecrGet(c, <<"a">>)
    \/ \E c \in Sequential : DecrSet(c)
    \/ \E c \in Sequential : AppendGet(c, <<"a">>, <<"b">>)
    \/ \E c \in Sequential : AppendSet(c)
    \/ \E c \in Sequential : Clear(c)
    \/ \E w \in writes : WriteDone(w)
    \/ Sync

\* setInterval keeps calling the sync callback, and every fs.writeFile
\* completes
FairSync ==
    /\ WF_vars(Sync)
    /\ \A o \in Owners : WF_vars(WriteSucceeds(o))

SpecSync == InitHybrid /\ [][NextSync]_vars /\ FairSync

-----------------------------------------------------------------------------
(* Claims about persistence across engines *)

\* the step into the next state completes the hydration of a fresh engine to
\* which no write was issued
HydratesUntouched(how) ==
    /\ loadFromDisk
    /\ prev.how = how
    /\ mode # "memory"
    /\ hist = EmptyMap

\* C21: in file and hybrid modes, after close() has returned with its write
\* done, a fresh engine on the same data directory holds, when its hydration
\* completes and no write was issued to it before, exactly the key-to-entry
\* mapping the closed engine held when close() was called.
C21_RestartRestoresStore ==
    [][HydratesUntouched("restarted") => data' = prev.store]_vars

\* the entries of a store that are live now
LiveKeys(m) == {k \in DOMAIN m : ~IsExpired(m[k])}

\* C22: a fresh engine hydrating from the file written by backup() holds,
\* when its hydration completes, the keys that were in the store at backup
\* time and have not expired since, and no other live key.
C22_BackupRestoresKeys ==
    [][HydratesUntouched("restored") => LiveKeys(data') = LiveKeys(prev.store)]_vars
-----------------------------------------------------------------------------
(* Claims about the hit and miss counters *)

\* the step is a get: a call of get returns, or a call of incr, decr or
\* append goes from its start to the await of its get
GetStep ==
    \/ last'.op = "get"
    \/ \E c \in Callers : calls[c].pc = "idle" /\ calls'[c].pc = "got"

\* C23: hitCount and missCount never decrease; each get, including the get
\* inside incr, decr and append, increases exactly one of them by exactly 1;
\* no other step (set, delete, exists, expire, ttl, keys, clear, stats,
\* backup, a disk write, sweep, sync) changes either of them.
C23_CountersCountGets ==
    [][/\ hitCount' >= hitCount
       /\ missCount' >= missCount
       /\ GetStep => (hitCount' - hitCount) + (missCount' - missCount) = 1
       /\ ~GetStep => hitCount' = hitCount /\ missCount' = missCount]_vars

\* an incr has returned after one hit and one miss were counted
C23_Witness == last.op = "incr" /\ hitCount = 1 /\ missCount = 1
-----------------------------------------------------------------------------
(* Claims about the expiration policy *)

\* the last mutating call on key k is a set with a positive TTL, and the clock
\* has reached the expiry computed by that set (expiresAt <= now)
SetTtlReached(k) ==
    /\ H(k).kind = "set"
    /\ H(k).ttl.def
    /\ H(k).ttl.num > 0
    /\ now >= H(k).at + SecondsToMs(H(k).ttl)

\* the last mutating call on key k is a set that has returned, without TTL or
\* with a positive TTL whose expiry is still ahead (expiresAt > now)
SetStillLive(k) ==
    /\ H(k).kind = "set"
    /\ Returned(k)
    /\ \/ ~H(k).ttl.def
       \/ H(k).ttl.num > 0 /\ now < H(k).at + SecondsToMs(H(k).ttl)

\* C24: get and exists treat an entry as live exactly when its expiresAt is
\* absent or expiresAt > now: from the instant now = expiresAt on, get returns
\* undefined and exists returns false; before it, get returns the value and
\* exists returns true.
C24_NotLiveAtExpiry ==
    last.op \in {"get", "exists"}
    => /\ SetTtlReached(last.key)
          => /\ last.op = "get" => last.ret = Undefined
             /\ last.op = "exists" => last.ret = Bool(FALSE)
       /\ SetStillLive(last.key)
          => /\ last.op = "get" => last.ret = H(last.key).v
             /\ last.op = "exists" => last.ret = Bool(TRUE)
\* the last mutating call on key k is a set that has returned, whose
\* ttlSeconds is absent, zero or negative
SetWithoutPositiveTtl(k) ==
    /\ H(k).kind = "set"
    /\ Returned(k)
    /\ ~(H(k).ttl.def /\ H(k).ttl.num > 0)

\* C25: the entry stored by set has expiresAt = now + ttlSeconds * 1000 when
\* ttlSeconds is given and positive, and no expiresAt when ttlSeconds is
\* absent, zero or negative; in the latter case ttl(key) returns -1 and get
\* returns the value.
C25_ExpiryOnlyWhenPositive ==
    /\ \A k \in DOMAIN data :
          H(k).kind = "set"
          => data[k].expiresAt =
                IF H(k).ttl.def /\ H(k).ttl.num > 0
                THEN SomeNumber(H(k).at + SecondsToMs(H(k).ttl))
                ELSE NoNumber
    /\ (last.op \in {"ttl", "get"} /\ SetWithoutPositiveTtl(last.key))
       => /\ last.op = "ttl" => last.ret = Num(TtlNoExpiry)
          /\ last.op = "get" => last.ret = H(last.key).v
-----------------------------------------------------------------------------
(* Claims about incr, decr and append as writes *)

\* caller c takes the second part of its incr, decr or append in this step:
\* the set of the new value and the return
SetPartOf(c) == calls[c].pc = "got" /\ calls'[c].pc # "got"

\* C26: incr, decr and append applied to a live key that has an expiration
\* leave the entry's expiresAt as it was.
C26_ExpiryKept ==
    [][\A c \in Callers :
          (/\ SetPartOf(c)
           /\ calls[c].key \in DOMAIN data
           /\ data[calls[c].key].expiresAt.def
           /\ ~IsExpired(data[calls[c].key]))
          => /\ calls[c].key \in DOMAIN data'
             /\ data'[calls[c].key].expiresAt = data[calls[c].key].expiresAt]_vars
\* the get of caller c's incr or decr returned no number (the key was
\* missing or expired, or its value is of another type), or the get of its
\* append returned no string
Coerced(c) ==
    IF calls[c].op = "append" THEN calls[c].cur.t # "string"
    ELSE calls[c].cur.t \notin {"number", "NaN"}

\* what the call stores and (for incr and decr) returns when the current
\* value counts as 0, or as the empty string
CoercedValue(c) ==
    CASE calls[c].op = "incr" -> Num(1)
      [] calls[c].op = "decr" -> Num(-1)
      [] OTHER -> Str(calls[c].arg)

\* the second part of caller c's call stores the coerced value, and incr and
\* decr return it
CoercionApplied(c) ==
    LET r == IF calls'[c].pc = "saving" THEN calls'[c].res ELSE last'
        k == calls[c].key
    IN /\ r.op = calls[c].op
       /\ calls[c].op \in {"incr", "decr"} => r.ret = CoercedValue(c)
       /\ k \in DOMAIN data'
       /\ data'[k].value = CoercedValue(c)
       /\ data'[k].type = TypeTag(CoercedValue(c))

\* C27 as stated: incr and decr on a key whose value is missing, expired or
\* not a number return 1 and -1 and replace the stored value with that number;
\* append on a key whose value is missing, expired or not a string makes the
\* stored value exactly the appended string.
C27_Coercion ==
    [][\A c \in Callers :
          (SetPartOf(c) /\ Coerced(c)) => CoercionApplied(c)]_vars

\* C27 amended: the same, for a valid key and, for append, a string whose
\* serialization is within maxValueSize.
C27_CoercionValid ==
    [][\A c \in Callers :
          (/\ SetPartOf(c)
           /\ Coerced(c)
           /\ validateKey(calls[c].key)
           /\ validateValue(CoercedValue(c)))
          => CoercionApplied(c)]_vars

\* C27 witness: append on a key whose entry, written by set with a TTL, had
\* expired stored exactly the appended string
C27_Witness ==
    /\ last.op = "append"
    /\ last.pre.kind = "set"
    /\ last.pre.ttl.def
    /\ now > last.pre.at + SecondsToMs(last.pre.ttl)
    /\ <<"a">> \in DOMAIN data
    /\ data[<<"a">>].value = Str(<<"b">>)
-----------------------------------------------------------------------------
(* Claims about the cleanup timer and the sync timer *)

\* the liveness predicate of the specification: expiresAt is absent, or
\* expiresAt > now
IsLive(entry) == ~entry.expiresAt.def \/ entry.expiresAt.ms > now

\* C28: one tick of the cleanup timer removes every entry that is not live at
\* the tick and leaves every live entry unchanged; it starts a write of the
\* store exactly when the mode is file or hybrid and an entry was removed, and
\* it does not touch the data file otherwise.
C28_SweepRemovesNotLive ==
    [][Sweep
       => /\ DOMAIN data' = {k \in DOMAIN data : IsLive(data[k])}
          /\ \A k \in DOMAIN data' : data'[k] = data[k]
          /\ (writes' # writes)
               <=> (mode \in {"file", "hybrid"} /\ DOMAIN data' # DOMAIN data)
          /\ writes' # writes
               => writes' = writes \cup {[owner |-> "sweep", snap |-> ToDisk(data')]}
          /\ disk' = disk]_vars
\* the timers of the engine run, and key k has an entry whose expiresAt has
\* passed
SweepDue(k) ==
    /\ phase = "ready"
    /\ k \in DOMAIN data
    /\ IsExpired(data[k])

\* C29: while the engine is initialised and not closed, an entry whose
\* expiresAt has passed is eventually gone from the store (removed by the
\* cleanup timer, or replaced by a new set), although no call reads its key.
C29_ExpiredEventuallyRemoved ==
    \A k \in SomeKeys : SweepDue(k) ~> ~SweepDue(k)

\* C29 witness: the entry written by a set with TTL is gone after its expiry
\* without any read (only the cleanup timer removes entries here), and the
\* engine is not closed
C29_Witness ==
    /\ phase = "ready"
    /\ SetHasExpired(<<"a">>)
    /\ <<"a">> \notin DOMAIN data
\* the methods that C30 says leave the disk alone in hybrid mode
HybridMemoryOps == {"set", "delete", "expire", "incr", "decr", "append"}

\* C30: in hybrid mode set, delete, expire, incr, decr and append return
\* without starting a disk write and without touching the data file; and if
\* from some point on the store no longer changes, then from some point on
\* the data file holds exactly the store.
C30_SyncCatchesUp ==
    /\ [][last'.op \in HybridMemoryOps => writes' = writes /\ disk' = disk]_vars
    /\ [](\A c \in Callers :
             calls[c].pc = "saving" => calls[c].res.op \notin HybridMemoryOps)
    /\ (<>[][data' = data]_vars) => <>[](disk = FileOf(ToDisk(data)))

\* C30 witness: in hybrid mode the data file holds the non-empty store that a
\* set without any disk write of its own produced, and no write is in flight
C30_Witness ==
    /\ mode = "hybrid"
    /\ H(<<"a">>).kind = "set"
    /\ <<"a">> \in DOMAIN data
    /\ writes = {}
    /\ disk = FileOf(ToDisk(data))

-----------------------------------------------------------------------------
(* The timer callbacks when writes fail *)

\* one tick of the backup timer (setupBackupTimer): the callback calls
\* backup(), which runs up to `await fs.mkdir`
BackupTick ==
    /\ phase = "ready"
    /\ backupTick = "idle"
    /\ backupTick' = "mkdir"
    /\ last' = NoCall
    /\ UNCHANGED <<mode, user, backupFile, prev, phase, data, disk, writes,
                   now, hitCount, missCount, calls, hist, race>>

\* the callback's backup() from the resumption after mkdir to
\* `await fs.writeFile`
BackupTickWrite ==
    /\ backupTick = "mkdir"
    /\ backupFile' = [state |-> "writing", timestamp |-> now,
                      data |-> ToDisk(data)]
    /\ backupTick' = "write"
    /\ last' = NoCall
    /\ UNCHANGED <<mode, user, prev, phase, data, disk, writes, now, hitCount,
                   missCount, calls, hist, race>>

\* the write of the backup file completes: backup() returns and the
\* callback's promise is fulfilled
BackupTickDone ==
    /\ backupTick = "write"
    /\ backupFile' = [backupFile EXCEPT !.state = "ok"]
    /\ backupTick' = "idle"
    /\ last' = NoCall
    /\ UNCHANGED <<mode, user, prev, phase, data, disk, writes, now, hitCount,
                   missCount, calls, hist, race>>

\* the write of the backup file fails: backup() has no catch and neither has
\* the callback, whose promise is rejected; setInterval ignores the promise
BackupTickFailed ==
    /\ backupTick = "write"
    /\ backupFile' = NoBackup
    /\ backupTick' = "rejected"
    /\ last' = NoCall
    /\ UNCHANGED <<mode, user, prev, phase, data, disk, writes, now, hitCount,
                   missCount, calls, hist, race>>

\* the runtime's treatment of the unhandled rejection (the program installs
\* no handler): a warning, or the end of the process, depending on the
\* runtime and its flags
UnhandledRejection ==
    /\ backupTick = "rejected"
    /\ backupTick' = "idle"
    /\ phase' \in {phase, "exited"}
    /\ last' = NoCall
    /\ UNCHANGED <<mode, user, backupFile, prev, data, disk, writes, now,
                   hitCount, missCount, calls, hist, race>>

\* who starts disk writes on a timer
TimerOwners == {"sweep", "sync"}

\* set by one caller, the cleanup timer and the sync timer; disk writes
\* complete or fail
NextTimers ==
    \/ \E c \in Sequential, q \in {NoSeconds, Seconds(1, 2)} :
         Set(c, <<"a">>, Num(5), q)
    \/ \E w \in writes : WriteDone(w)
    \/ \E w \in writes : WriteFailed(w)
    \/ Sweep
    \/ Sync
    \/ Tick

\* setInterval keeps calling the cleanup and sync callbacks until
\* clearInterval, and every fs.writeFile settles
FairTimers ==
    /\ WF_vars(Sweep)
    /\ WF_vars(Sync)
    /\ \A o \in Owners : WF_vars(WriteSettles(o))

SpecTimers == Init /\ [][NextTimers]_vars /\ FairTimers

\* the process has not been ended by an unhandled rejection
Running == phase # "exited"

\* set and get by one caller and the backup timer, in a process that has
\* not exited
NextBackupTimer ==
    \/ \E c \in Sequential, q \in {NoSeconds, Seconds(1, 2)} :
         Running /\ Set(c, <<"a">>, Num(5), q)
    \/ \E c \in Sequential : Running /\ Get(c, <<"a">>)
    \/ \E w \in writes : Running /\ WriteDone(w)
    \/ BackupTick
    \/ Running /\ BackupTickWrite
    \/ Running /\ BackupTickDone
    \/ Running /\ BackupTickFailed
    \/ UnhandledRejection
    \/ Running /\ Tick

SpecBackupTimer == Init /\ [][NextBackupTimer]_vars

-----------------------------------------------------------------------------
(* C31 *)

\* saveToDisk has just caught and logged a failed write of a timer
TimerWriteFailed == last.op = "log-error" /\ last.caller \in TimerOwners

\* a timer tick has started a write of the data file
TimerWriteStarted == \E w \in writes : w.owner \in TimerOwners

\* C31: a disk-write failure during a sweep or sync tick is contained: the
\* step in which saveToDisk catches it raises no fault, leaves the store as
\* the tick produced it and leaves the timers scheduled, and afterwards a
\* later tick attempts the write again
C31_TimerWriteFailureContained ==
    /\ [][last'.op = "log-error" =>
            /\ last'.ret # Fault
            /\ data' = data
            /\ phase' = phase]_vars
    /\ (TimerWriteFailed /\ phase = "ready") ~> TimerWriteStarted

-----------------------------------------------------------------------------
(* C32 *)

\* C32: a write failure during the periodic backup never escapes the backup
\* timer's callback as an unhandled rejection, and the engine keeps serving
\* afterwards
C32_BackupFailureContained ==
    /\ backupTick # "rejected"
    /\ phase # "exited"
-----------------------------------------------------------------------------
(* Shutdown while init() runs *)

\* set and close by one caller while init() runs and afterwards, and the
\* three timers once init() has set them up
NextShutdown ==
    \/ InitAfterMkdir
    \/ loadFromDisk
    \/ \E c \in Sequential, q \in {NoSeconds, Seconds(1, 2)} :
         Set(c, <<"a">>, Num(5), q)
    \/ \E c \in Sequential : Close(c)
    \/ \E w \in writes : WriteDone(w)
    \/ Sweep
    \/ Sync
    \/ BackupTick
    \/ BackupTickWrite
    \/ BackupTickDone
    \/ Tick

SpecShutdown == InitStartup /\ [][NextShutdown]_vars

-----------------------------------------------------------------------------
(* C33 *)

\* close() has been called and has returned
CloseCompleted ==
    /\ prev.how = "closed"
    /\ \A c \in Callers : ~(calls[c].pc = "saving" /\ calls[c].res.op = "close")

\* C33: once close() has completed no sync, sweep or backup timer remains
\* scheduled, whether close() was called after init() had finished or before
C33_NoTimerAfterClose == CloseCompleted => phase # "ready"
-----------------------------------------------------------------------------
(* C34 *)

\* one step of expire on a key whose entry is past its expiresAt and still
\* in the map: it returns false and the entry's expiresAt is as it was
ExpireOnExpired ==
    \A c \in Callers, k \in SomeKeys, q \in ExpireArgs :
        (k \in DOMAIN data /\ IsExpired(data[k]) /\ Expire(c, k, q))
        => LET r == IF calls'[c].pc = "saving" THEN calls'[c].res ELSE last'
           IN /\ r.ret = Bool(FALSE)
              /\ k \in DOMAIN data' => data'[k].expiresAt = data[k].expiresAt

\* C34: an expired entry never becomes readable again without a new set:
\* expire on an entry that is already past its expiresAt returns false and
\* does not extend it
C34_ExpiredStaysExpired == [][ExpireOnExpired]_vars
-----------------------------------------------------------------------------
(* C35 *)

\* C35: when incr, decr or append returns, with no other writer in between,
\* get(key) returns the number that incr or decr returned, or a string of the
\* length that append returned, whatever the key and the argument
C35_ReturnIsStored ==
    (last.op \in {"incr", "decr", "append"} /\ last.clean)
    => LET stored == get(last.key).ret
       IN IF last.op = "append"
          THEN stored.t = "string" /\ Num(Len(stored.s)) = last.ret
          ELSE stored = last.ret
-----------------------------------------------------------------------------
(* The read path *)

\* set on two keys and every read-path call by one caller, with the clock
NextRead ==
    \/ \E c \in Sequential, k \in KeyNames, q \in {NoSeconds, Seconds(1, 2)} :
         Set(c, k, Num(5), q)
    \/ \E c \in Sequential, k \in KeyNames : Get(c, k)
    \/ \E c \in Sequential, k \in KeyNames : Exists(c, k)
    \/ \E c \in Sequential, k \in KeyNames : Ttl(c, k)
    \/ \E c \in Sequential : Keys(c, <<"*">>)
    \/ \E c \in Sequential : StatsStat(c)
    \/ \E c \in Sequential : StatsReturn(c)
    \/ \E w \in writes : WriteDone(w)
    \/ Tick

SpecRead == Init /\ [][NextRead]_vars

-----------------------------------------------------------------------------
(* C36 *)

\* the step is made by get, exists, ttl, keys or stats
ReadStep ==
    \/ last'.op \in {"get", "exists", "ttl", "keys", "stats"}
    \/ \E c \in Callers : calls[c].pc = "idle" /\ calls'[c].pc = "stat"

\* the step creates no entry and changes none, removes at most the entry of
\* the key queried by get or exists, and only if that entry has expired, and
\* starts no write of the data file
ReadEffect ==
    /\ \A k \in DOMAIN data' : k \in DOMAIN data /\ data'[k] = data[k]
    /\ \A k \in (DOMAIN data) \ (DOMAIN data') :
          /\ last'.op \in {"get", "exists"}
          /\ k = last'.key
          /\ IsExpired(data[k])
          /\ ~IsLive(data[k])
    /\ writes' = writes
    /\ disk' = disk

\* C36: get, exists, ttl, keys and stats never create an entry and never
\* change one; the only change to the store they can make is removing the
\* expired entry of the queried key, and they never remove a live entry
C36_ReadsOnlyExpire == [][ReadStep => ReadEffect]_vars

\* a get or exists has just removed the expired entry of its key, and the
\* other entry is still in the store
C36_Witness ==
    /\ last.op \in {"get", "exists"}
    /\ last.key \notin DOMAIN data
    /\ H(last.key).kind = "set"
    /\ H(last.key).ok
    /\ H(last.key).ttl.def
    /\ now > H(last.key).at + SecondsToMs(H(last.key).ttl)
    /\ DOMAIN data # {}
-----------------------------------------------------------------------------
(* Overwriting an entry *)

\* set with and without a TTL, expire, ttl and get on one key by one caller,
\* with the clock
NextReplace ==
    \/ \E c \in Sequential, q \in TtlArgs : Set(c, <<"a">>, Num(5), q)
    \/ \E c \in Sequential : Expire(c, <<"a">>, Seconds(1, 2))
    \/ \E c \in Sequential : Ttl(c, <<"a">>)
    \/ \E c \in Sequential : Get(c, <<"a">>)
    \/ \E w \in writes : WriteDone(w)
    \/ Tick

SpecReplace == Init /\ [][NextReplace]_vars

-----------------------------------------------------------------------------
(* C37 *)

\* caller c makes the step of a set on key k that succeeds
SuccessfulSetStep(c, k) ==
    /\ calls[c].pc = "idle"
    /\ calls'[c].pc = "saving" \/ last'.caller = c
    /\ LET r == IF calls'[c].pc = "saving" THEN calls'[c].res ELSE last'
       IN r.op = "set" /\ r.key = k /\ r.ret = Bool(TRUE)

\* the expiry of the entry after a successful set is the one of that set:
\* none without a TTL, and the time of the set plus the (positive) TTL with
\* one, whatever the expiry of the entry that was there
SetReplacesExpiry ==
    \A c \in Callers, k \in SomeKeys :
        SuccessfulSetStep(c, k)
        => /\ k \in DOMAIN data'
           /\ data'[k].expiresAt =
                 IF hist'[k].ttl.def
                 THEN SomeNumber(now + SecondsToMs(hist'[k].ttl))
                 ELSE NoNumber

\* after a successful set without a TTL, ttl(key) returns -1 and get(key)
\* returns the value, however late
PlainSetNeverExpires ==
    (last.op \in {"ttl", "get"} /\ PlainSet(last.key))
    => /\ last.op = "ttl" => last.ret = Num(TtlNoExpiry)
       /\ last.op = "get" => last.ret = H(last.key).v

\* C37: set fully replaces the previous entry: a successful set without a
\* TTL removes the expiration the key had (ttl then returns -1 and the key no
\* longer expires), and a successful set with a new TTL replaces the old
\* expiry
C37_SetReplacesEntry ==
    /\ [][SetReplacesExpiry]_vars
    /\ []PlainSetNeverExpires

\* file mode, the write of a successful set without a TTL is in flight: the
\* data file still holds the entry that was overwritten, which was live with
\* an expiration, and the entry in the store has none
C37_Witness ==
    /\ mode = "file"
    /\ \E c \in Callers :
          /\ calls[c].pc = "saving"
          /\ calls[c].res.op = "set"
          /\ calls[c].res.key = <<"a">>
    /\ <<"a">> \in DOMAIN disk.map
    /\ disk.map[<<"a">>].expiresAt.def
    /\ disk.map[<<"a">>].expiresAt.ms > now
    /\ <<"a">> \in DOMAIN data
    /\ ~data[<<"a">>].expiresAt.def
=============================================================================
